---- MODULE Spec2Model ----
(***************************************************************************)
(* A model of pyramid's pshell command (src/pyramid/scripts/pshell.py):    *)
(* PShellCommand.run, pshell_file_config, setup_env, show_shells,          *)
(* find_all_shells and make_shell.                                         *)
(*                                                                         *)
(* Python dicts whose iteration order matters (the discovered shells) are  *)
(* sequences of records in insertion order; the other dicts are functions  *)
(* from names to values.  Python objects are named by strings and compared *)
(* by that name ("is").  Texts are sequences of tokens.                    *)
(***************************************************************************)
EXTENDS Integers, Sequences, FiniteSets, TLC

VARIABLES
    pc,               \* position of run()
    args,             \* self.args, parsed by __init__
    shell_arg,        \* the shell parameter of run()
    entry_points,     \* the 'pyramid.pshell_runner' entry points, in order
    settings,         \* the [pshell] section the loader returns
    bootstrap_env,    \* the mapping bootstrap() returns
    preferred_shells, \* self.preferred_shells
    loaded_objects,   \* self.loaded_objects
    object_help,      \* self.object_help
    setup,            \* self.setup
    env,              \* self.env
    closer,           \* self.closer
    shell,            \* the local shell of run()
    env_help,         \* the local env_help of setup_env()
    removed,          \* keys the setup hook deleted from env
    help,             \* the local help of setup_env()
    self_help,        \* self.help
    result,           \* what run() returned, or "raise"
    out,              \* the messages given to self.out
    log               \* the calls made to the collaborators, in order

vars == <<pc, args, shell_arg, entry_points, settings, bootstrap_env,
          preferred_shells, loaded_objects, object_help, setup, env, closer,
          shell, env_help, removed, help, self_help, result, out, log>>

-----------------------------------------------------------------------------
(* Bounds of the model *)

MaxShells == 3
MaxPref == 2

-----------------------------------------------------------------------------
(* Values *)

None == "None"
NoShell == <<"None", 0>>
default_runner == <<"python_shell_runner", 0>>
GivenShell == <<"shell_arg", 0>>
Factory(i) == <<"ep.load", i>>

Range(s) == {s[i] : i \in 1..Len(s)}
EmptyDict == [k \in {} |-> None]

\* str.lower on the names the model uses
Lower(s) ==
    CASE s = "IPython" -> "ipython"
      [] s = "Python" -> "python"
      [] s = "BPython" -> "bpython"
      [] s = "NoSuch" -> "nosuch"
      [] OTHER -> s

RECURSIVE LowerAll(_)
LowerAll(s) == IF s = <<>> THEN <<>> ELSE <<Lower(Head(s))>> \o LowerAll(Tail(s))

\* dict.update
Update(a, b) ==
    [k \in DOMAIN a \cup DOMAIN b |-> IF k \in DOMAIN b THEN b[k] ELSE a[k]]

\* del d[k] for every k of ks
Without(d, ks) == [k \in DOMAIN d \ ks |-> d[k]]

-----------------------------------------------------------------------------
(* Shell Resolver *)

Names(shells) == [i \in 1..Len(shells) |-> shells[i].name]

\* shells[name] = shell_factory: a new key goes last, a known key keeps its place
DictSet(shells, name, factory) ==
    IF \E i \in 1..Len(shells) : shells[i].name = name
    THEN [i \in 1..Len(shells) |->
            IF shells[i].name = name
            THEN [name |-> name, factory |-> factory] ELSE shells[i]]
    ELSE Append(shells, [name |-> name, factory |-> factory])

RECURSIVE LoadEntryPoints(_, _)
LoadEntryPoints(eps, shells) ==
    IF eps = <<>> THEN shells
    ELSE LoadEntryPoints(Tail(eps),
                         DictSet(shells, Head(eps).name, Head(eps).factory))

find_all_shells(eps) == LoadEntryPoints(eps, <<>>)

\* dict.get
DictGet(shells, name) ==
    IF \E i \in 1..Len(shells) : shells[i].name = name
    THEN shells[CHOOSE i \in 1..Len(shells) : shells[i].name = name].factory
    ELSE NoShell

\* list.index, 0-based; the caller handles the ValueError of an absent x
Index(list, x) ==
    (CHOOSE i \in 1..Len(list) :
        list[i] = x /\ \A j \in 1..(i - 1) : list[j] # x) - 1

\* [k for k in shells.keys() if k != 'python']
RECURSIVE AllButPython(_)
AllButPython(names) ==
    IF names = <<>> THEN <<>>
    ELSE (IF Head(names) # "python" THEN <<Head(names)>> ELSE <<>>)
         \o AllButPython(Tail(names))

\* a slip: the index is not shifted below the key of the absent names
orderWithoutWeight(x, preferred) ==
    IF Lower(x.name) \in Range(preferred)
    THEN Index(preferred, Lower(x.name))
    ELSE 1

order(x, preferred) ==
    IF Lower(x.name) \in Range(preferred)
    THEN Index(preferred, Lower(x.name)) - Len(preferred)
    ELSE 1

\* x goes after the items of the sorted list that have a smaller key
RECURSIVE InsertByOrder(_, _, _)
InsertByOrder(x, sorted, preferred) ==
    IF sorted # <<>> /\ order(Head(sorted), preferred) < order(x, preferred)
    THEN <<Head(sorted)>> \o InsertByOrder(x, Tail(sorted), preferred)
    ELSE <<x>> \o sorted

\* sorted(shells.items(), key=order): stable
RECURSIVE SortedShells(_, _)
SortedShells(items, preferred) ==
    IF items = <<>> THEN <<>>
    ELSE InsertByOrder(Head(items), SortedShells(Tail(items), preferred),
                       preferred)

EffectivePreference(shells, configured) ==
    IF configured = <<>> THEN AllButPython(Names(shells)) ELSE configured

\* the shell picked when no name was given (None when there is no shell)
PreferredShell(shells, configured) ==
    LET sorted_shells ==
            SortedShells(shells, EffectivePreference(shells, configured))
    IN  IF Len(sorted_shells) > 0 THEN sorted_shells[1].factory ELSE NoShell

\* the shell picked for an explicit name (None when it is not a key)
NamedShell(shells, user_shell) == DictGet(shells, user_shell)

\* a slip: an unknown name falls back to the default runner
make_shell_fallback(eps, python_shell, configured) ==
    LET shells == find_all_shells(eps)
        user_shell == Lower(python_shell)
        picked == IF user_shell = ""
                  THEN PreferredShell(shells, configured)
                  ELSE NamedShell(shells, user_shell)
    IN  [raised |-> FALSE,
         shell |-> IF picked = NoShell THEN default_runner ELSE picked]

\* make_shell: [raised, shell]
make_shell(eps, python_shell, configured) ==
    LET shells == find_all_shells(eps)
        user_shell == Lower(python_shell)
        picked == IF user_shell = ""
                  THEN PreferredShell(shells, configured)
                  ELSE NamedShell(shells, user_shell)
    IN  IF user_shell # "" /\ picked = NoShell
        THEN [raised |-> TRUE, shell |-> NoShell]
        ELSE [raised |-> FALSE,
              shell |-> IF picked = NoShell THEN default_runner ELSE picked]

-----------------------------------------------------------------------------
(* Environment Builder *)

NameWidth == 12

\* the names the model binds, as sorted() orders them
KeyOrder ==
    <<"app", "extra", "m", "registry", "request", "root", "root_factory",
      "startup">>

SortedKeys(keys) == SelectSeq(KeyOrder, LAMBDA k : k \in keys)

WellKnownHelp ==
    [k \in {"app", "root", "registry", "request", "root_factory"} |->
        CASE k = "app" -> <<"The WSGI application.">>
          [] k = "root" -> <<"Root of the default resource tree.">>
          [] k = "registry" -> <<"Active Pyramid registry.">>
          [] k = "request" -> <<"Active request object.">>
          [] k = "root_factory" ->
                <<"Default root factory used to create root.">>]

\* a slip: the fixed descriptions are given to the bound names alone
SeedHelpOfBound(e) ==
    Update([k \in DOMAIN e |-> <<e[k]>>],
           [k \in DOMAIN e \cap DOMAIN WellKnownHelp |-> WellKnownHelp[k]])

\* env_help = dict(env), then the five fixed descriptions
SeedHelp(e) == Update([k \in DOMAIN e |-> <<e[k]>>], WellKnownHelp)

\* a slip: the seeded entries of the custom names are kept
OverlaidHelpKeepingSeeds(e, loaded) == SeedHelp(e)

\* the seeded help without the names of the custom objects
OverlaidHelp(e, loaded) == Without(SeedHelp(e), DOMAIN loaded)

\* resolver.maybe_resolve(v) of a dotted name that exists
Resolved(v) == "object " \o v

\* getattr(v, '__doc__', False)
Doc(v) ==
    IF v = "hook.documented" THEN <<"Made by", "\n", "the hook.">> ELSE <<>>

\* str.replace("\n", " ")
ReplaceNewlines(doc) ==
    [i \in 1..Len(doc) |-> IF doc[i] = "\n" THEN " " ELSE doc[i]]

HelpOf(v) == IF Doc(v) # <<>> THEN ReplaceNewlines(Doc(v)) ELSE <<v>>

\* the keys of e that are new or rebound since orig_env
Changed(e, orig_env) ==
    {k \in DOMAIN e : k \notin DOMAIN orig_env \/ e[k] # orig_env[k]}

\* the loop over env.items() after the hook was entered
Reconciled(e_help, e, orig_env) ==
    Update(e_help, [k \in Changed(e, orig_env) |-> HelpOf(e[k])])

Header(title) == [kind |-> "header", name |-> title, pad |-> 0, text |-> <<>>]
Blank == [kind |-> "blank", name |-> "", pad |-> 0, text |-> <<>>]

\* '\n  %-12s %s' % (var, text)
Entry(var, text) ==
    [kind |-> "entry", name |-> var,
     pad |-> IF Len(var) < NameWidth THEN NameWidth - Len(var) ELSE 0,
     text |-> text]

Entries(d) ==
    LET keys == SortedKeys(DOMAIN d)
    IN  [i \in 1..Len(keys) |-> Entry(keys[i], d[keys[i]])]

RECURSIVE LStrip(_)
LStrip(lines) ==
    IF lines # <<>> /\ Head(lines) = Blank THEN LStrip(Tail(lines)) ELSE lines

RECURSIVE RStrip(_)
RStrip(lines) ==
    IF lines # <<>> /\ lines[Len(lines)] = Blank
    THEN RStrip(SubSeq(lines, 1, Len(lines) - 1)) ELSE lines

\* str.strip on the lines of the text
Strip(lines) == RStrip(LStrip(lines))

\* the help text before it is stripped, one record per line
HelpText(e_help, o_help) ==
    LET environment ==
            IF DOMAIN e_help # {}
            THEN <<Header("Environment:")>> \o Entries(e_help) ELSE <<>>
        custom ==
            IF DOMAIN o_help # {}
            THEN (IF environment = <<>> THEN <<Blank>> ELSE <<>>)
                 \o <<Blank, Header("Custom Variables:")>>
                 \o Entries([k \in DOMAIN o_help |-> <<o_help[k]>>])
            ELSE <<>>
    IN  environment \o custom

\* exec of the PYTHONSTARTUP file against env, then del env['__builtins__']
AfterStartup(e) ==
    Without(Update(e, [k \in {"__builtins__", "startup"} |->
                          IF k = "startup" THEN "startup.value"
                          ELSE "builtins"]),
            {"__builtins__"})

-----------------------------------------------------------------------------
(* The inputs of a run *)

ShellNames == {"python", "ipython", "IPython", "bpython"}
UserShells == {"", "python", "ipython", "IPython", "nosuch"}
PreferenceNames == {"python", "IPython", "bpython"}

SeqsUpTo(S, n) == UNION {[1..k -> S] : k \in 0..n}

\* the entry points with these names; each loads a factory of its own
Registry(names) ==
    [i \in 1..Len(names) |-> [name |-> names[i], factory |-> Factory(i)]]

Args(python_shell, list, config_uri, setup_arg) ==
    [python_shell |-> python_shell, list |-> list, config_uri |-> config_uri,
     setup |-> setup_arg]

Settings(setup_value, default_shell, objects) ==
    [setup |-> setup_value, default_shell |-> default_shell,
     objects |-> objects]

\* what bootstrap() returns for these names, the closer with it
Bootstrapped(keys) ==
    [k \in keys \cup {"closer"} |-> "bootstrap " \o k]

WellKnown == DOMAIN WellKnownHelp

\* bootstrap() binds the five well-known names, and may bind more
BootstrapEnvs ==
    {Bootstrapped(WellKnown), Bootstrapped(WellKnown \cup {"extra"})}

\* a bootstrap replaced by one that binds app and root alone
BareBootstrapEnvs == {Bootstrapped({"app", "root"})}

CustomObjects ==
    {[k \in ks |-> "pkg." \o k] : ks \in SUBSET {"root", "m"}}

\* whether resolver.maybe_resolve finds the dotted name
Resolvable(v) == v # "hooks.missing"

Unset ==
    /\ preferred_shells = <<>>
    /\ loaded_objects = EmptyDict
    /\ object_help = EmptyDict
    /\ setup = None
    /\ env = EmptyDict
    /\ closer = None
    /\ shell = NoShell
    /\ env_help = EmptyDict
    /\ removed = {}
    /\ help = <<>>
    /\ self_help = <<>>
    /\ result = "running"
    /\ out = <<>>
    /\ log = <<>>
    /\ pc = "start"

\* the arguments, entry points and settings of the runs of the whole command
RunInputs ==
    /\ args \in
         {Args(n, FALSE, "app.ini", s) :
             n \in {"", "ipython", "NoSuch"},
             s \in {"", "hooks.good", "hooks.missing"}}
         \cup {Args("", TRUE, None, ""), Args("", FALSE, None, "")}
    /\ shell_arg \in {NoShell, GivenShell}
    /\ entry_points \in {Registry(<<>>), Registry(<<"python", "ipython">>)}
    /\ settings \in
         {Settings(s, <<>>, o) : s \in {None, "hooks.ini"}, o \in CustomObjects}

\* runs of the whole command
Init ==
    /\ RunInputs
    /\ bootstrap_env \in BootstrapEnvs
    /\ Unset

\* runs of the whole command, the bare bootstrap among the collaborators
InitAnyBootstrap ==
    /\ RunInputs
    /\ bootstrap_env \in BootstrapEnvs \cup BareBootstrapEnvs
    /\ Unset

\* runs that resolve a shell
InitResolver ==
    /\ args \in {Args(n, l, "app.ini", "") : n \in UserShells, l \in BOOLEAN}
    /\ shell_arg = NoShell
    /\ entry_points \in {Registry(ns) : ns \in SeqsUpTo(ShellNames, MaxShells)}
    /\ settings \in
         {Settings(None, p, EmptyDict) : p \in SeqsUpTo(PreferenceNames, MaxPref)}
    /\ bootstrap_env = Bootstrapped(WellKnown)
    /\ Unset

inputs == <<args, shell_arg, entry_points, settings, bootstrap_env>>
config == <<preferred_shells, loaded_objects, object_help>>
building == <<env_help, removed, help, self_help>>

-----------------------------------------------------------------------------
(* show_shells *)

\* the lowered shell names, as sorted() orders them
ShellNameOrder == <<"bpython", "ipython", "python">>

RECURSIVE SortedByLower(_, _)
SortedByLower(names, keys) ==
    IF keys = <<>> THEN <<>>
    ELSE SelectSeq(names, LAMBDA n : Lower(n) = Head(keys))
         \o SortedByLower(names, Tail(keys))

\* sorted(shells.keys(), key=lambda x: x.lower())
sorted_names(shells) == SortedByLower(Names(shells), ShellNameOrder)

show_shells(eps) ==
    LET names == sorted_names(find_all_shells(eps))
    IN  <<"Available shells:">> \o [i \in 1..Len(names) |-> "  " \o names[i]]

-----------------------------------------------------------------------------
(* run *)

RunListShells ==
    /\ pc = "start"
    /\ args.list
    /\ out' = out \o show_shells(entry_points)
    /\ result' = "return 0"
    /\ pc' = "done"
    /\ UNCHANGED <<inputs, config, setup, env, closer, shell, building, log>>

RunNoConfig ==
    /\ pc = "start"
    /\ ~args.list
    /\ args.config_uri = None
    /\ out' = Append(out, "Requires a config file argument")
    /\ result' = "return 2"
    /\ pc' = "done"
    /\ UNCHANGED <<inputs, config, setup, env, closer, shell, building, log>>

\* pshell_file_config
FileConfig ==
    /\ loaded_objects' =
         [k \in DOMAIN settings.objects |-> Resolved(settings.objects[k])]
    /\ object_help' = settings.objects
    /\ setup' = settings.setup
    /\ preferred_shells' =
         IF settings.default_shell # <<>>
         THEN LowerAll(settings.default_shell) ELSE preferred_shells

\* the loader, the [pshell] section and bootstrap; the closer leaves the env
RunBootstrap ==
    /\ pc = "start"
    /\ ~args.list
    /\ args.config_uri # None
    /\ FileConfig
    /\ env' = Without(bootstrap_env, {"closer"})
    /\ closer' = bootstrap_env["closer"]
    /\ log' = Append(log, "bootstrap")
    /\ pc' = "try"
    /\ UNCHANGED <<inputs, shell, building, result, out>>

\* the loader or bootstrap raises: there is no env and no closer
RunBootstrapRaises ==
    /\ pc = "start"
    /\ ~args.list
    /\ args.config_uri # None
    /\ \/ UNCHANGED <<config, setup>>
       \/ FileConfig
    /\ result' = "raise"
    /\ pc' = "done"
    /\ UNCHANGED <<inputs, env, closer, shell, building, out, log>>

NotFound(user_shell) ==
    "could not find a shell named \"" \o user_shell \o "\""

\* shell = self.make_shell(), unless run() was given one
MakeShell ==
    /\ pc = "try"
    /\ IF shell_arg # NoShell
       THEN /\ shell' = shell_arg
            /\ pc' = "setup_env"
            /\ UNCHANGED <<out, result>>
       ELSE LET made ==
                    make_shell(entry_points, args.python_shell, preferred_shells)
            IN  IF made.raised
                THEN /\ out' = Append(out, NotFound(Lower(args.python_shell)))
                     /\ result' = "return 1"
                     /\ pc' = "finally"
                     /\ UNCHANGED shell
                ELSE /\ shell' = made.shell
                     /\ pc' = "setup_env"
                     /\ UNCHANGED <<out, result>>
    /\ UNCHANGED <<inputs, config, setup, env, closer, building, log>>

\* an entry point fails to load
MakeShellRaises ==
    /\ pc = "try"
    /\ shell_arg = NoShell
    /\ entry_points # <<>>
    /\ log' = Append(log, "load raises")
    /\ result' = "raise"
    /\ pc' = "finally"
    /\ UNCHANGED <<inputs, config, setup, env, closer, shell, building, out>>

\* setup_env up to the resolved setup callable
SetupEnv ==
    /\ pc = "setup_env"
    /\ env' = Update(env, loaded_objects)
    /\ LET chosen == IF args.setup # "" THEN args.setup ELSE setup
       IN  IF chosen # None /\ ~Resolvable(chosen)
           THEN /\ setup' = chosen
                /\ result' = "raise"
                /\ pc' = "finally"
                /\ UNCHANGED env_help
           ELSE /\ setup' = IF chosen = None THEN None ELSE Resolved(chosen)
                /\ env_help' = OverlaidHelp(env, loaded_objects)
                /\ pc' = "hook"
                /\ UNCHANGED result
    /\ UNCHANGED <<inputs, config, closer, shell, removed, help, self_help,
                   out, log>>

HookKeys == {"root", "m", "extra"}
HookObjects == {"hook.documented", "hook.plain"}

Effect(op, key, value) == [op |-> op, key |-> key, value |-> value]

\* what the setup callable may do to the env it is given
HookEffects(hook, e) ==
    IF hook = None THEN {Effect("none", "", "")}
    ELSE {Effect("none", "", ""), Effect("raise", "", "")}
         \cup {Effect("bind", k, v) : k \in HookKeys, v \in HookObjects}
         \cup {Effect("delete", k, "") : k \in HookKeys \cap DOMAIN e}

AfterHook(e, effect) ==
    CASE effect.op = "bind" -> Update(e, [k \in {effect.key} |-> effect.value])
      [] effect.op = "delete" -> Without(e, {effect.key})
      [] OTHER -> e

\* the setup manager is entered with env; the help text is made
EnterSetup ==
    /\ pc = "hook"
    /\ \E effect \in HookEffects(setup, env) :
         IF effect.op = "raise"
         THEN /\ result' = "raise"
              /\ pc' = "finally"
              /\ UNCHANGED <<env, building, log>>
         ELSE /\ env' = AfterHook(env, effect)
              /\ removed' = DOMAIN env \ DOMAIN env'
              /\ env_help' = Reconciled(env_help, env', env)
              /\ help' = HelpText(env_help', object_help)
              /\ log' = Append(log, "setup enter")
              /\ pc' = "startup"
              /\ UNCHANGED <<result, self_help>>
    /\ UNCHANGED <<inputs, config, setup, closer, shell, out>>

\* the PYTHONSTARTUP file, then self.help and the yield
PyStartup ==
    /\ pc = "startup"
    /\ \E startup \in {"no file", "runs", "raises"} :
         IF startup = "raises"
         THEN /\ result' = "raise"
              /\ pc' = "hook_exit"
              /\ UNCHANGED <<env, self_help>>
         ELSE /\ env' = IF startup = "runs" THEN AfterStartup(env) ELSE env
              /\ self_help' = Strip(help)
              /\ pc' = "shell"
              /\ UNCHANGED result
    /\ UNCHANGED <<inputs, config, setup, closer, shell, env_help, removed,
                   help, out, log>>

\* shell(self.env, self.help)
ShellCall ==
    /\ pc = "shell"
    /\ log' = Append(log, "shell call")
    /\ pc' = "in_shell"
    /\ UNCHANGED <<inputs, config, setup, env, closer, shell, building, result,
                   out>>

ShellReturns ==
    /\ pc = "in_shell"
    /\ log' = Append(log, "shell end")
    /\ pc' = "hook_exit"
    /\ UNCHANGED <<inputs, config, setup, env, closer, shell, building, result,
                   out>>

\* a slip: the exception of the shell leaves run past the setup manager
ShellRaisesPastSetup ==
    /\ pc = "in_shell"
    /\ log' = Append(log, "shell end")
    /\ result' = "raise"
    /\ pc' = "finally"
    /\ UNCHANGED <<inputs, config, setup, env, closer, shell, building, out>>

ShellRaises ==
    /\ pc = "in_shell"
    /\ log' = Append(log, "shell end")
    /\ result' = "raise"
    /\ pc' = "hook_exit"
    /\ UNCHANGED <<inputs, config, setup, env, closer, shell, building, out>>

\* the with blocks of setup_env and run are left: the setup manager exits
ExitSetup ==
    /\ pc = "hook_exit"
    /\ log' = Append(log, "setup exit")
    /\ result' \in IF setup = None THEN {result} ELSE {"running", "raise"}
    /\ pc' = "finally"
    /\ UNCHANGED <<inputs, config, setup, env, closer, shell, building, out>>

\* a slip: the closer is called after the with block, not in a finally
FinallyOnSuccess ==
    /\ pc = "finally"
    /\ log' = IF result = "running" THEN Append(log, "closer") ELSE log
    /\ result' = IF result = "running" THEN "return None" ELSE result
    /\ pc' = "done"
    /\ UNCHANGED <<inputs, config, setup, env, closer, shell, building, out>>

\* finally: self.closer()
Finally ==
    /\ pc = "finally"
    /\ log' = Append(log, "closer")
    /\ result' = IF result = "running" THEN "return None" ELSE result
    /\ pc' = "done"
    /\ UNCHANGED <<inputs, config, setup, env, closer, shell, building, out>>

Next ==
    \/ RunListShells
    \/ RunNoConfig
    \/ RunBootstrap
    \/ RunBootstrapRaises
    \/ MakeShell
    \/ MakeShellRaises
    \/ SetupEnv
    \/ EnterSetup
    \/ PyStartup
    \/ ShellCall
    \/ ShellReturns
    \/ ShellRaises
    \/ ExitSetup
    \/ Finally

Spec == Init /\ [][Next]_vars

SpecAnyBootstrap == InitAnyBootstrap /\ [][Next]_vars

NextResolver ==
    \/ RunListShells
    \/ RunBootstrap
    \/ MakeShell

SpecResolver == InitResolver /\ [][NextResolver]_vars

-----------------------------------------------------------------------------
(* Properties of the shell resolver *)

Discovered == find_all_shells(entry_points)

\* make_shell has returned or raised its ValueError
ShellResolved ==
    /\ shell_arg = NoShell
    /\ \/ pc = "setup_env"
       \/ pc = "finally" /\ result = "return 1"

\* the discovered shells the name n names, letter case aside
Named(n) ==
    {i \in 1..Len(Discovered) : Lower(Discovered[i].name) = Lower(n)}

\* C1: an explicit shell name that names a discovered shell (letter case
\* aside) makes make_shell return the factory of that shell, whatever the
\* preference list holds.
C1_ExplicitNameReturnsItsShell ==
    (ShellResolved /\ args.python_shell # "" /\ Named(args.python_shell) # {})
        => /\ pc = "setup_env"
           /\ \E i \in Named(args.python_shell) : shell = Discovered[i].factory

\* the discovered names other than "python", in discovery order
OtherThanPython == SelectSeq(Names(Discovered), LAMBDA n : n # "python")

\* C4: with no explicit name and no configured preference, make_shell returns
\* the first discovered shell not named "python", and the shell named "python"
\* only when it is the only one.
C4_DefaultAvoidsPython ==
    (ShellResolved /\ args.python_shell = "" /\ preferred_shells = <<>>
               /\ Discovered # <<>>)
        => /\ pc = "setup_env"
           /\ shell = IF OtherThanPython = <<>>
                      THEN DictGet(Discovered, "python")
                      ELSE DictGet(Discovered, OtherThanPython[1])

\* the rank of a discovered shell: its place in the preference list, the
\* length of the list when it is not in it
Rank(x) ==
    IF Lower(x.name) \in Range(preferred_shells)
    THEN Index(preferred_shells, Lower(x.name))
    ELSE Len(preferred_shells)

\* the first shell, in discovery order, of the least rank
Best ==
    CHOOSE i \in 1..Len(Discovered) :
        /\ \A j \in 1..Len(Discovered) : Rank(Discovered[i]) <= Rank(Discovered[j])
        /\ \A j \in 1..(i - 1) : Rank(Discovered[j]) > Rank(Discovered[i])

\* C5: with no explicit name and a configured preference list, make_shell
\* returns the discovered shell whose name comes first in the list; shells
\* that are not in the list rank after all that are, and among equals the
\* first discovered wins.
C5_PreferenceOrder ==
    (ShellResolved /\ args.python_shell = "" /\ preferred_shells # <<>>
               /\ Discovered # <<>>)
        => /\ pc = "setup_env"
           /\ shell = Discovered[Best].factory

\* C5 witness: P = [ipython, bpython] and S = {python, ipython, bpython}
\* resolve to ipython.
C5_Witness ==
    /\ pc = "setup_env"
    /\ args.python_shell = ""
    /\ preferred_shells = <<"ipython", "bpython">>
    /\ Names(Discovered) = <<"python", "ipython", "bpython">>
    /\ shell = Factory(2)

-----------------------------------------------------------------------------
(* Properties of run *)

Count(e) == Cardinality({i \in 1..Len(log) : log[i] = e})
Logged(e) == e \in Range(log)

\* C2: once bootstrap has returned, the closer is called exactly once on every
\* way out of run, as the last call of the run, never before the shell ended.
C2_CloserExactlyOnce ==
    /\ Count("closer") <= 1
    /\ Logged("closer") =>
          /\ Logged("bootstrap")
          /\ pc = "done"
          /\ log[Len(log)] = "closer"
    /\ (pc = "done" /\ Logged("bootstrap")) => Count("closer") = 1
    /\ pc = "in_shell" => ~Logged("closer")
    /\ Count("shell call") > Count("shell end") => ~Logged("closer")

\* C2 witness: the shell raised and the closer was called once, last.
C2_Witness ==
    /\ pc = "done"
    /\ result = "raise"
    /\ log = <<"bootstrap", "setup enter", "shell call", "shell end",
               "setup exit", "closer">>

\* C3: the shell is called only inside the entered setup manager, which is
\* left on every way out of the shell, before the closer is called.
C3_SetupScopesTheShell ==
    /\ Count("setup exit") <= Count("setup enter")
    /\ Count("setup enter") <= 1
    /\ \A i \in 1..Len(log) :
          log[i] = "shell call" =>
              \E j \in 1..(i - 1) :
                  /\ log[j] = "setup enter"
                  /\ \A k \in j..i : log[k] # "setup exit"
    /\ pc = "in_shell" => Count("setup enter") > Count("setup exit")
    /\ (pc \in {"finally", "done"} /\ Logged("shell call")) =>
          \E i \in 1..Len(log) :
              /\ log[i] = "setup exit"
              /\ \E j \in 1..(i - 1) : log[j] = "shell end"
    /\ \A i \in 1..Len(log) :
          (log[i] = "closer" /\ Logged("setup enter")) =>
              \E j \in 1..(i - 1) : log[j] = "setup exit"

\* C3 witness: the shell raised and the setup manager was left before the
\* finally clause of run.
C3_Witness ==
    /\ pc = "finally"
    /\ result = "raise"
    /\ setup # None
    /\ log = <<"bootstrap", "setup enter", "shell call", "shell end",
               "setup exit">>

\* C6: an explicit name that names no discovered shell (letter case aside)
\* makes run report it and return 1; no shell is made or called and the setup
\* manager is never entered.
C6_UnknownNameReturnsOne ==
    (/\ shell_arg = NoShell
     /\ args.python_shell # ""
     /\ Named(args.python_shell) = {}
     /\ Logged("bootstrap"))
        => /\ pc \in {"try", "finally", "done"}
           /\ shell = NoShell
           /\ ~Logged("shell call")
           /\ ~Logged("setup enter")
           /\ (pc \in {"finally", "done"} /\ ~Logged("load raises")) =>
                 /\ result = "return 1"
                 /\ out = <<NotFound(Lower(args.python_shell))>>

\* C6 witness: run returned 1 for a name that is not among the discovered
\* shells.
C6_Witness ==
    /\ pc = "done"
    /\ args.python_shell = "NoSuch"
    /\ entry_points # <<>>
    /\ result = "return 1"
    /\ out = <<"could not find a shell named \"nosuch\"">>
    /\ log = <<"bootstrap", "closer">>

-----------------------------------------------------------------------------
(* Properties of the help text *)

\* the entries under a header of the help text
Section(lines, title) ==
    LET at == {i \in 1..Len(lines) : lines[i] = Header(title)}
    IN  IF at = {} THEN <<>>
        ELSE LET h == CHOOSE i \in at : TRUE
                 ends == {j \in h..Len(lines) :
                             \A k \in (h + 1)..j : lines[k].kind = "entry"}
                 last == CHOOSE j \in ends : \A k \in ends : k <= j
             IN  SubSeq(lines, h + 1, last)

SectionNames(lines, title) ==
    [i \in 1..Len(Section(lines, title)) |-> Section(lines, title)[i].name]

\* the shell has been given self.help
HelpGiven == pc \in {"shell", "in_shell"}

BootstrapKeys == DOMAIN bootstrap_env \ {"closer"}

C8_UnresolvableSetupReported ==
    (pc = "done" /\ setup # None /\ ~Resolvable(setup))
        => /\ result \in {"return 1", "return 2"}
           /\ Len(out) = 1
           /\ ~Logged("shell call")
           /\ Count("closer") = 1

\* C9: when the help text is made, the help entries are those of the bound
\* names: every entry is of a bound name, no entry is of a name the hook
\* removed, and every bound name that is not a custom object has an entry.
C9_HelpInSyncWithEnv ==
    pc = "startup"
        => /\ DOMAIN env_help \subseteq DOMAIN env
           /\ removed \cap DOMAIN env_help = {}
           /\ (DOMAIN env \ DOMAIN loaded_objects) \subseteq DOMAIN env_help

\* C10: a custom object replaces the binding and the seeded help entry of its
\* name; with no setup hook the help lists the name once, under "Custom
\* Variables:", with its configuration string.
C10_CustomReplacesSeeded ==
    \A k \in DOMAIN settings.objects :
        /\ pc = "hook" =>
              /\ env[k] = Resolved(settings.objects[k])
              /\ k \notin DOMAIN env_help
        /\ (HelpGiven /\ setup = None) =>
              /\ k \notin Range(SectionNames(self_help, "Environment:"))
              /\ Cardinality({i \in 1..Len(self_help) :
                                 self_help[i].name = k}) = 1
              /\ Entry(k, <<settings.objects[k]>>)
                     \in Range(Section(self_help, "Custom Variables:"))

\* C10 witness: a custom object named root, over the root of bootstrap, and no
\* setup hook.
C10_Witness ==
    /\ HelpGiven
    /\ setup = None
    /\ "root" \in DOMAIN settings.objects
    /\ env["root"] = "object pkg.root"
    /\ Entry("root", <<"pkg.root">>) \in Range(self_help)

====
